---- MODULE Spec2Model ----
(***************************************************************************)
(* Contact submission pipeline of backend/server.js: sanitizer, validator, *)
(* spam classifier, message store (one JSON file), Telegram notifier with  *)
(* retry, and the HTTP handlers that compose them.                         *)
(*                                                                         *)
(* A JavaScript string is a sequence of one-character strings.  Handlers   *)
(* run on one event loop: a handler runs without interruption up to its    *)
(* next await, so every action below is the code between two awaits.       *)
(* fs.writeFileSync is taken to succeed (server.js:299 "always works").    *)
(***************************************************************************)
EXTENDS Integers, Sequences, FiniteSets, TLC

(***************************************************************************)
(* Characters and strings                                                  *)
(***************************************************************************)
LowerLetters ==
  <<"a","b","c","d","e","f","g","h","i","j","k","l","m",
    "n","o","p","q","r","s","t","u","v","w","x","y","z">>

UpperLetters ==
  <<"A","B","C","D","E","F","G","H","I","J","K","L","M",
    "N","O","P","Q","R","S","T","U","V","W","X","Y","Z">>

Digits == {"0","1","2","3","4","5","6","7","8","9"}

Range(s) == {s[i] : i \in DOMAIN s}

Letters == Range(LowerLetters) \cup Range(UpperLetters)

\* \w of a JavaScript regular expression
WordChars == Letters \cup Digits \cup {"_"}

\* what String.prototype.trim removes (the characters the inputs here use)
WhiteSpace == {" ", "\t", "\n", "\r"}

\* the i flag: compare letters without case
ToLower(c) ==
  IF c \in Range(UpperLetters)
  THEN LowerLetters[CHOOSE i \in DOMAIN UpperLetters : UpperLetters[i] = c]
  ELSE c

\* s.slice(a - 1, b) in 1-based inclusive positions
Slice(s, a, b) == [i \in 1..(IF b >= a THEN b - a + 1 ELSE 0) |-> s[a + i - 1]]

\* the characters of s at the positions in Keep, in order
KeepAt(s, Keep) ==
  LET kept == SelectSeq([i \in 1..Len(s) |-> i], LAMBDA i : i \in Keep)
  IN [j \in 1..Len(kept) |-> s[kept[j]]]

\* pattern p (lower case) occurs in s at position i, letters compared without case
MatchAt(s, p, i) ==
  /\ i >= 1
  /\ i + Len(p) - 1 <= Len(s)
  /\ \A k \in 1..Len(p) : ToLower(s[i + k - 1]) = p[k]

Rep(c, n) == [i \in 1..n |-> c]

(***************************************************************************)
(* sanitizeInput, server.js:76-87                                          *)
(***************************************************************************)
\* .trim()
Trim(s) ==
  LET solid == {i \in DOMAIN s : s[i] \notin WhiteSpace}
  IN IF solid = {} THEN << >>
     ELSE Slice(s, CHOOSE i \in solid : \A j \in solid : i <= j,
                   CHOOSE i \in solid : \A j \in solid : i >= j)

MaxFieldLen == 1000

\* .slice(0, 1000)
Truncate(s) == Slice(s, 1, IF Len(s) < MaxFieldLen THEN Len(s) ELSE MaxFieldLen)

\* .replace(/<[^>]*>/g, ''): a match runs from a '<' to the first '>' after it;
\* position k is inside a match iff a '<' at or before k has no '>' between it
\* and k, and a '>' follows at or after k.
InTag(s, k) ==
  /\ \E g \in k..Len(s) : s[g] = ">"
  /\ \E j \in 1..k : /\ s[j] = "<"
                     /\ \A m \in j..(k - 1) : s[m] # ">"

StripTags(s) == KeepAt(s, {k \in DOMAIN s : ~InTag(s, k)})

\* the grave accent, which a TLA+ string cannot hold
Backtick == "grave"

DangerousChars == {"<", ">", "\"", "'", Backtick, ";", "(", ")", "{", "}"}

\* .replace(/[<>"';(){}]/g, '') with the grave accent in the class too
StripDangerous(s) == SelectSeq(s, LAMBDA c : c \notin DangerousChars)

\* .replace(/p/gi, '') for a literal p that cannot overlap itself
StripLiteral(s, p) ==
  KeepAt(s, {k \in DOMAIN s : ~\E i \in (k - Len(p) + 1)..k : MatchAt(s, p, i)})

JavascriptScheme == <<"j","a","v","a","s","c","r","i","p","t",":">>

DataScheme == <<"d","a","t","a",":">>

\* /on\w+=/ matches at i: "on", then a run of one or more \w that ends at a '='
HandlerAt(s, i, e) ==
  /\ MatchAt(s, <<"o","n">>, i)
  /\ e >= i + 3
  /\ e <= Len(s)
  /\ s[e] = "="
  /\ \A m \in (i + 2)..(e - 1) : s[m] \in WordChars

\* .replace(/on\w+=/gi, ''): every match that ends at one '=' lies in the run of
\* \w before it, and the scan takes the leftmost
InHandler(s, k) ==
  \E e \in k..Len(s) :
    /\ s[e] = "="
    /\ \A m \in k..(e - 1) : s[m] # "="
    /\ \E i \in 1..k : HandlerAt(s, i, e)

StripHandlers(s) == KeepAt(s, {k \in DOMAIN s : ~InHandler(s, k)})

\* the absent field (undefined) of a request body
Absent == <<"undefined">>

sanitizeInput(str) ==
  IF str = Absent \/ str = << >> THEN << >>
  ELSE StripLiteral(
         StripHandlers(
           StripLiteral(
             StripDangerous(StripTags(Truncate(Trim(str)))),
             JavascriptScheme)),
         DataScheme)

(***************************************************************************)
(* isValidEmail, server.js:90-93                                           *)
(***************************************************************************)
LocalChars == Letters \cup Digits \cup {".", "_", "%", "+", "-"}

DomainChars == Letters \cup Digits \cup {".", "-"}

MaxEmailLen == 254

\* /^[a-zA-Z0-9._%+-]+@[a-zA-Z0-9.-]+\.[a-zA-Z]{2,}$/ : some '@' at a and some
\* '.' at d split the string into the three runs
EmailShape(email) ==
  \E a \in DOMAIN email : \E d \in DOMAIN email :
    /\ email[a] = "@"
    /\ email[d] = "."
    /\ a >= 2
    /\ d >= a + 2
    /\ Len(email) >= d + 2
    /\ \A i \in 1..(a - 1) : email[i] \in LocalChars
    /\ \A i \in (a + 1)..(d - 1) : email[i] \in DomainChars
    /\ \A i \in (d + 1)..Len(email) : email[i] \in Letters

isValidEmail(email) == EmailShape(email) /\ Len(email) <= MaxEmailLen

(***************************************************************************)
(* isSpam, server.js:96-105                                                *)
(***************************************************************************)
SpamWords ==
  { <<"v","i","a","g","r","a">>, <<"c","a","s","i","n","o">>,
    <<"l","o","t","t","e","r","y">>, <<"w","i","n","n","e","r">>,
    <<"p","r","i","z","e">>,
    <<"c","l","i","c","k"," ","h","e","r","e">>,
    <<"b","u","y"," ","n","o","w">> }

\* \b before position i (between i - 1 and i) when s[i] is a word character
BoundaryBefore(s, i) == i = 1 \/ s[i - 1] \notin WordChars

\* \b after position i when s[i] is a word character
BoundaryAfter(s, i) == i = Len(s) \/ s[i + 1] \notin WordChars

\* /\b(viagra|casino|lottery|winner|prize|click here|buy now)\b/i
HasSpamWord(s) ==
  \E w \in SpamWords : \E i \in DOMAIN s :
    /\ MatchAt(s, w, i)
    /\ BoundaryBefore(s, i)
    /\ BoundaryAfter(s, i + Len(w) - 1)

HttpScheme == <<"h","t","t","p",":","/","/">>

HttpsScheme == <<"h","t","t","p","s",":","/","/">>

\* /(http[s]?:\/\/){2,}/i : two scheme occurrences, the second right after the first
HasRepeatedScheme(s) ==
  \E i \in DOMAIN s : \E p \in {HttpScheme, HttpsScheme} :
    /\ MatchAt(s, p, i)
    /\ \E q \in {HttpScheme, HttpsScheme} : MatchAt(s, q, i + Len(p))

MinRepeats == 10

\* /(.)\1{10,}/i : a character other than a line break, then ten more of it
HasRepeatedChar(s) ==
  \E i \in DOMAIN s :
    /\ i + MinRepeats <= Len(s)
    /\ s[i] \notin {"\n", "\r"}
    /\ \A k \in 1..MinRepeats : ToLower(s[i + k]) = ToLower(s[i])

\* `${data.name} ${data.subject} ${data.message}`
SpamContent(data) == data.name \o <<" ">> \o data.subject \o <<" ">> \o data.message

isSpam(data) ==
  LET content == SpamContent(data)
  IN \/ HasSpamWord(content)
     \/ HasRepeatedScheme(content)
     \/ HasRepeatedChar(content)

(***************************************************************************)
(* Bounds of the model                                                     *)
(***************************************************************************)
\* requests that need a slot: POST /api/contact and resend-telegram
MaxReq == 2

\* clock ticks of one millisecond between handler steps
MaxTicks == 1

(***************************************************************************)
(* State                                                                   *)
(***************************************************************************)
VARIABLES
  store,      \* data/messages.json: the array of message records last written
  file,       \* data/messages.json: how the file reads now
  now,        \* Date.now(), in milliseconds
  ticks,      \* clock ticks taken so far
  botToken,   \* TELEGRAM_BOT_TOKEN
  chatId,     \* TELEGRAM_CHAT_ID
  req,        \* the handlers of /api/contact and resend-telegram, by arrival
  reply,      \* the response of the latest list, get or delete request
  deleted,    \* history: ids a DELETE request removed a record for
  resendWrote, \* history: a resend-telegram request has written its snapshot
  generalLimiter, \* hits of each client in its window of generalLimiter
  contactLimiter, \* hits of each client in its window of contactLimiter
  hourTurned, \* the contact window of a client ended in its general window
  reached     \* history: the requests of each client that reached a handler

limits == <<generalLimiter, contactLimiter, hourTurned, reached>>

vars == <<store, file, now, ticks, botToken, chatId, req, reply, deleted, resendWrote,
          generalLimiter, contactLimiter, hourTurned, reached>>

Slots == 1..MaxReq

TokenSentinel == "YOUR_BOT_TOKEN_HERE"

ChatSentinel == "YOUR_CHAT_ID_HERE"

\* a field a record does not have
Undefined == "undefined"

Null == "null"

NoMessage ==
  [id |-> 0, name |-> << >>, email |-> << >>, subject |-> << >>, message |-> << >>,
   timestamp |-> 0, ip |-> Undefined, read |-> FALSE, telegramSent |-> FALSE,
   telegramError |-> Undefined, telegramRetryAt |-> 0, origin |-> 0]

NoResult == [success |-> FALSE, error |-> Undefined, isNetworkError |-> FALSE]

NoResponse ==
  [status |-> 0, success |-> FALSE, text |-> "", hasNotified |-> FALSE,
   telegramNotified |-> FALSE]

NoReply == [route |-> "none", status |-> 0, success |-> FALSE, count |-> 0,
            messages |-> << >>]

\* a handler: its place (pc), its locals, its response, and history (outcomes,
\* delays: how the attempts of the running sendToTelegram call ended and the
\* waits between them; body: the request body; sawOk: an attempt got ok;
\* storedAtFetch, storedAtReply:
\* the record was in the store at the first fetch, at the response; overlaps:
\* the requests in flight at arrival)
NoBody == [name |-> << >>, email |-> << >>, subject |-> << >>, message |-> << >>]

FreeSlot ==
  [kind |-> "free", pc |-> "free", body |-> NoBody, msg |-> NoMessage,
   messages |-> << >>,
   msgIndex |-> 0, attempt |-> 0, outcomes |-> << >>, delays |-> << >>,
   result |-> NoResult, resp |-> NoResponse, sawOk |-> FALSE,
   storedAtFetch |-> FALSE, storedAtReply |-> FALSE, overlaps |-> {}]

\* the requests that are waiting at an await
InFlight == {q \in Slots : req[q].pc \in {"fetch", "backoff"}}

\* requests arrive one after the other: the next one takes the first free slot
NextSlot(r) == /\ req[r].kind = "free"
               /\ \A q \in 1..(r - 1) : req[q].kind # "free"

(***************************************************************************)
(* Message store, server.js:219-231                                        *)
(***************************************************************************)
\* the file holds the JSON text that saveMessages wrote; or text that JSON.parse
\* rejects; or readFileSync finds no file
Json == "json"

Garbled == "garbled"

Missing == "missing"

BrokenFiles == {Garbled, Missing}

\* a read that answers with the array last written, whatever the file holds now
readMessages_KeepsContent == store

\* server.js:219-227: every error of readFileSync and of JSON.parse is caught
readMessages == IF file = Json THEN store ELSE << >>

\* server.js:229-231: writeFileSync replaces the content of the file
saveMessages(messages) == store' = messages /\ file' = Json

\* Array.prototype.findIndex((m) => m.id === id), 1-based; 0 stands for -1
findIndex(messages, id) ==
  IF \E i \in DOMAIN messages : messages[i].id = id
  THEN CHOOSE i \in DOMAIN messages :
         /\ messages[i].id = id
         /\ \A j \in 1..(i - 1) : messages[j].id # id
  ELSE 0

\* Array.prototype.splice(index, 1)
splice(messages, index) ==
  [i \in 1..(Len(messages) - 1) |->
     IF i < index THEN messages[i] ELSE messages[i + 1]]

\* a list route that answers in the stored order
reverse_KeepsOrder(messages) == messages

\* Array.prototype.reverse
reverse(messages) ==
  [i \in 1..Len(messages) |-> messages[Len(messages) + 1 - i]]

(***************************************************************************)
(* sendToTelegram, server.js:117-177                                       *)
(***************************************************************************)
retries == 3

\* what one attempt (await fetch, await response.json()) can end with: a parsed
\* response {ok, description}, or a thrown error with its name and code
Responses == { [kind |-> "response", ok |-> TRUE, name |-> "", code |-> ""],
               [kind |-> "response", ok |-> FALSE, name |-> "", code |-> ""] }

Thrown ==
  { [kind |-> "throw", ok |-> FALSE, name |-> "TypeError", code |-> ""],
    [kind |-> "throw", ok |-> FALSE, name |-> "AbortError", code |-> ""],
    [kind |-> "throw", ok |-> FALSE, name |-> "Error", code |-> "ENOTFOUND"],
    [kind |-> "throw", ok |-> FALSE, name |-> "Error", code |-> "ECONNREFUSED"],
    [kind |-> "throw", ok |-> FALSE, name |-> "Error", code |-> "ETIMEDOUT"],
    \* response.json() on a body that is not JSON
    [kind |-> "throw", ok |-> FALSE, name |-> "SyntaxError", code |-> ""],
    [kind |-> "throw", ok |-> FALSE, name |-> "Error", code |-> ""] }

Outcomes == Responses \cup Thrown

\* server.js:149-154
isNetworkError(error) ==
  \/ error.name = "TypeError"
  \/ error.name = "AbortError"
  \/ error.code = "ENOTFOUND"
  \/ error.code = "ECONNREFUSED"
  \/ error.code = "ETIMEDOUT"

\* history: how an attempt ended
OutcomeTag(o) ==
  IF o.kind = "response" THEN (IF o.ok THEN "ok" ELSE "rejected")
  ELSE IF isNetworkError(o) THEN "network" ELSE "other"

\* Math.pow(2, attempt - 1) * 1000, server.js:163
BackoffDelay(attempt) == (2 ^ (attempt - 1)) * 1000

\* return { success: false, error: 'Unknown error' }, server.js:176
UnknownError ==
  [success |-> FALSE, error |-> "Unknown error", isNetworkError |-> FALSE]

\* the loop test and the fetch of the next round, server.js:126-128; the return
\* after the loop, server.js:176
StartAttempt(q, attempt) ==
  IF attempt <= retries
  THEN [q EXCEPT !.pc = "fetch", !.attempt = attempt]
  ELSE [q EXCEPT !.pc = "returned", !.attempt = attempt, !.result = UnknownError]

\* the call: the text is built and the first attempt starts, server.js:117-128
sendToTelegram(q, messageData) ==
  StartAttempt([q EXCEPT !.msg = messageData, !.outcomes = << >>,
                         !.delays = << >>], 1)

\* the catch block's choice, server.js:161-173
AfterThrow(q, o) ==
  IF isNetworkError(o) /\ q.attempt < retries
  THEN [q EXCEPT !.pc = "backoff",
                 !.delays = Append(@, BackoffDelay(q.attempt))]
  ELSE IF q.attempt = retries
  THEN [q EXCEPT !.pc = "returned",
                 !.result = [success |-> FALSE,
                             error |-> "Network error after 3 attempts",
                             isNetworkError |-> TRUE]]
  ELSE StartAttempt(q, q.attempt + 1)

\* a notifier that reports success for every parsed response
AfterResponse_AlwaysSuccess(q, o) ==
  [q EXCEPT !.pc = "returned",
            !.result = [success |-> TRUE, error |-> Undefined,
                        isNetworkError |-> FALSE]]

\* the try block's returns, server.js:141-147
AfterResponse(q, o) ==
  IF o.ok
  THEN [q EXCEPT !.pc = "returned",
                 !.result = [success |-> TRUE, error |-> Undefined,
                             isNetworkError |-> FALSE]]
  ELSE [q EXCEPT !.pc = "returned",
                 !.result = [success |-> FALSE, error |-> "description",
                             isNetworkError |-> FALSE]]

\* one round of the loop from the end of its fetch, server.js:139-174
AfterAttempt(q, o) ==
  LET logged == [q EXCEPT !.outcomes = Append(@, OutcomeTag(o))]
  IN IF o.kind = "response" THEN AfterResponse(logged, o) ELSE AfterThrow(logged, o)

(***************************************************************************)
(* Request bodies of the submissions                                       *)
(***************************************************************************)
GoodEmail == <<"a","@","b",".","c","o">>

TenChars == <<"h","e","l","l","o"," ","t","h","e","r">>

ValidBodyA ==
  [name |-> <<"A","l">>, email |-> GoodEmail, subject |-> Absent,
   message |-> TenChars]

\* tags and outer blanks that the sanitizer removes
ValidBodyB ==
  [name |-> <<"<","b",">","B","o","<","/","b",">">>,
   email |-> <<"b","o","@","x",".","i","o">>, subject |-> <<"H","i">>,
   message |-> <<" ","s","e","e"," ","y","o","u"," ","s","o","o","n"," ">>]

SpamBody ==
  [name |-> <<"A","l">>, email |-> GoodEmail, subject |-> Absent,
   message |-> <<"B","u","y"," ","n","o","w",","," ","p","a","l">>]

RepeatSpamBody ==
  [name |-> <<"A","l">>, email |-> GoodEmail, subject |-> <<"H","i">>,
   message |-> Rep("z", 12)]

ShortNameBody ==
  [name |-> <<"A">>, email |-> GoodEmail, subject |-> Absent, message |-> TenChars]

LongNameBody ==
  [name |-> Rep("n", 101), email |-> GoodEmail, subject |-> Absent,
   message |-> TenChars]

AbsentNameBody ==
  [name |-> Absent, email |-> GoodEmail, subject |-> Absent, message |-> TenChars]

BlankEmailBody ==
  [name |-> <<"A","l">>, email |-> <<" "," ">>, subject |-> Absent,
   message |-> TenChars]

\* a message that is nothing but a tag
TagMessageBody ==
  [name |-> <<"A","l">>, email |-> GoodEmail, subject |-> Absent,
   message |-> <<"<","s","c","r","i","p","t",">">>]

ShortMessageBody ==
  [name |-> <<"A","l">>, email |-> GoodEmail, subject |-> Absent,
   message |-> <<"H","i"," ","t","h","e","r","e","!">>]

BadEmailBody ==
  [name |-> <<"A","l">>, email |-> <<"n","o","t","-","a","n","-","e","m","a","i","l">>,
   subject |-> Absent, message |-> TenChars]

\* the bodies of the requests that run side by side
Bodies == {ValidBodyA, SpamBody, ShortNameBody}

\* the bodies that try the validation rules one by one
ValidationBodies ==
  {ValidBodyA, SpamBody, RepeatSpamBody, ShortNameBody, LongNameBody,
   AbsentNameBody, BlankEmailBody, TagMessageBody, ShortMessageBody, BadEmailBody}

\* a message of n characters with nothing to strip and no spam pattern
MessageOf(n) == [i \in 1..n |-> TenChars[((i - 1) % 10) + 1]]

LengthBody(n) ==
  [name |-> <<"A","l">>, email |-> GoodEmail, subject |-> Absent,
   message |-> MessageOf(n)]

\* the messages at the limits of the length rule
LengthBodies == {LengthBody(n) : n \in {9, 10, 1000, 1001}}

NineChars == <<"H","i"," ","t","h","e","r","e","!">>

BadEmail == <<"n","o","t","-","a","n","-","e","m","a","i","l">>

\* 255 characters of a valid shape
LongEmail == Rep("a", 250) \o GoodEmail

\* bodies that break several validation rules at once, or break one and match a
\* spam pattern
OrderBodies ==
  { [name |-> Absent, email |-> BadEmail, subject |-> Absent, message |-> NineChars],
    [name |-> <<"A">>, email |-> BadEmail, subject |-> Absent, message |-> NineChars],
    [name |-> <<"A","l">>, email |-> BadEmail, subject |-> Absent,
     message |-> NineChars],
    [name |-> Rep("n", 101), email |-> <<" "," ">>, subject |-> Absent,
     message |-> TenChars],
    [name |-> <<"A">>, email |-> GoodEmail, subject |-> Absent,
     message |-> SpamBody.message],
    [name |-> <<"A","l">>, email |-> BadEmail, subject |-> Absent,
     message |-> SpamBody.message],
    [name |-> <<"A","l">>, email |-> LongEmail, subject |-> Absent,
     message |-> TenChars],
    [name |-> <<"A">>, email |-> LongEmail, subject |-> Absent,
     message |-> TenChars],
    ValidBodyA, SpamBody }

\* pieces of text that the sanitizer strips, whole and in halves
Pieces ==
  {<<>>,
   <<"j","a","v","a">>,
   <<"s","c","r","i","p","t",":">>,
   <<"j","a","v","a","s","c","r","i","p","t",":">>,
   <<"d","a">>,
   <<"t","a",":">>,
   <<"d","a","t","a",":">>,
   <<"<","b",">">>,
   <<" ">>}

Leads == {<<>>, <<"<","b",">"," ">>, <<" ">>}

\* valid submissions whose message is built from the pieces
SanitizeBodies ==
  {[name |-> <<"A","l">>, email |-> GoodEmail, subject |-> Absent,
    message |-> a \o TenChars \o b \o c] : a \in Leads, b \in Pieces, c \in Pieces}

\* submissions with links: two apart, two in a row, one, one in the subject and
\* one in the message, two secure ones apart
UrlBodies ==
  {[name |-> <<"A","l">>, email |-> GoodEmail, subject |-> Absent,
    message |-> <<"h","t","t","p",":","/","/","a",".","c","o"," ","h","t","t","p",":","/","/","b",".","c","o">>],
   [name |-> <<"A","l">>, email |-> GoodEmail, subject |-> Absent,
    message |-> <<"h","t","t","p",":","/","/","h","t","t","p",":","/","/","a",".","c","o">>],
   [name |-> <<"A","l">>, email |-> GoodEmail, subject |-> Absent,
    message |-> <<"s","e","e"," ","h","t","t","p",":","/","/","a",".","c","o">>],
   [name |-> <<"A","l">>, email |-> GoodEmail, subject |-> <<"h","t","t","p",":","/","/","a",".","c","o">>,
    message |-> <<"h","t","t","p","s",":","/","/","b",".","c","o"," ","n","o","w">>],
   [name |-> <<"A","l">>, email |-> GoodEmail, subject |-> Absent,
    message |-> <<"h","t","t","p","s",":","/","/","a",".","c","o",","," ","h","t","t","p","s",":","/","/","b",".","c","o">>]}

AllBodies ==
  Bodies \cup ValidationBodies \cup {ValidBodyB} \cup LengthBodies \cup OrderBodies
    \cup SanitizeBodies \cup UrlBodies

(***************************************************************************)
(* POST /api/contact, server.js:238-338                                    *)
(***************************************************************************)
MinNameLen == 2

MaxNameLen == 100

MinMessageLen == 10

MaxMessageLen == 1000

RequiredError == "Name, email, and message are required."

NameError == "Name must be between 2 and 100 characters."

MessageError == "Message must be between 10 and 1000 characters."

EmailError == "Please provide a valid email address."

Thanks == "Thank you! Your message has been received."

NoSubject == <<"(","N","o"," ","s","u","b","j","e","c","t",")">>

\* a validator without the upper limit of the name
ValidationError_NoNameLimit(name, email, message) ==
  IF name = << >> \/ email = << >> \/ message = << >> THEN RequiredError
  ELSE IF Len(name) < MinNameLen THEN NameError
  ELSE IF Len(message) < MinMessageLen \/ Len(message) > MaxMessageLen
       THEN MessageError
  ELSE IF ~isValidEmail(email) THEN EmailError
  ELSE ""

\* a validator that checks the email before the lengths
ValidationError_EmailFirst(name, email, message) ==
  IF name = << >> \/ email = << >> \/ message = << >> THEN RequiredError
  ELSE IF ~isValidEmail(email) THEN EmailError
  ELSE IF Len(name) < MinNameLen \/ Len(name) > MaxNameLen THEN NameError
  ELSE IF Len(message) < MinMessageLen \/ Len(message) > MaxMessageLen
       THEN MessageError
  ELSE ""

\* the checks of server.js:247-275 in their order: the first that fails gives the
\* error, "" when all pass
ValidationError(name, email, message) ==
  IF name = << >> \/ email = << >> \/ message = << >> THEN RequiredError
  ELSE IF Len(name) < MinNameLen \/ Len(name) > MaxNameLen THEN NameError
  ELSE IF Len(message) < MinMessageLen \/ Len(message) > MaxMessageLen
       THEN MessageError
  ELSE IF ~isValidEmail(email) THEN EmailError
  ELSE ""

\* server.js:287-297; origin is history: the request that created the record
NewMessage(r, name, email, subject, message) ==
  [id |-> now, name |-> name, email |-> email,
   subject |-> IF subject = << >> THEN NoSubject ELSE subject,
   message |-> message, timestamp |-> now, ip |-> "ip", read |-> FALSE,
   telegramSent |-> FALSE, telegramError |-> Undefined, telegramRetryAt |-> 0,
   origin |-> r]

\* server.js:309-312
Configured == botToken # TokenSentinel /\ chatId # ChatSentinel

\* let telegramResult = { success: false, error: 'Not configured' }, server.js:307
NotConfigured ==
  [success |-> FALSE, error |-> "Not configured", isNetworkError |-> FALSE]

\* telegramResult.error || null
ErrorOrNull(result) == IF result.error = Undefined THEN Null ELSE result.error

Respond(status, success, text) ==
  [status |-> status, success |-> success, text |-> text,
   hasNotified |-> FALSE, telegramNotified |-> FALSE]

\* a handler that answers 500 when the delivery failed
RespondStored_FailsWithDelivery(result) ==
  [status |-> IF result.success THEN 201 ELSE 500, success |-> result.success,
   text |-> Thanks, hasNotified |-> TRUE, telegramNotified |-> result.success]

\* server.js:326-330
RespondStored(result) ==
  [status |-> 201, success |-> TRUE, text |-> Thanks,
   hasNotified |-> TRUE, telegramNotified |-> result.success]

Arrived(r, kind) ==
  [FreeSlot EXCEPT !.kind = kind, !.overlaps = InFlight]

\* history: the record request r created is in the array
Holds(messages, r) == \E i \in DOMAIN messages : messages[i].origin = r

\* a store write that keeps only the new record
AppendMessage_Overwrites(newMessage) == <<newMessage>>

\* server.js:300-301
AppendMessage(newMessage) == Append(readMessages, newMessage)

\* the status fields the handler sets after the notifier returned, server.js:319-320
WithStatus(m, result) ==
  [m EXCEPT !.telegramSent = result.success,
            !.telegramError = ErrorOrNull(result)]

\* server.js:316-322: the store is read again, and written when the id is found
ContactUpdate(q) ==
  LET updatedMessages == readMessages
      msgIndex == findIndex(updatedMessages, q.msg.id)
  IN IF msgIndex # 0
     THEN [updatedMessages EXCEPT ![msgIndex] = WithStatus(@, q.result)]
     ELSE updatedMessages

\* the handler's record once it has responded: the locals are gone
Responded(q, resp, messages, r) ==
  [q EXCEPT !.pc = "done", !.resp = resp, !.sawOk = "ok" \in Range(q.outcomes),
            !.outcomes = << >>, !.delays = << >>, !.attempt = 0,
            !.messages = << >>, !.msgIndex = 0,
            !.storedAtReply = Holds(messages, r)]

\* the handler from the return of sendToTelegram to its response, server.js:313-330
ContactFinish(r, q) ==
  /\ IF findIndex(readMessages, q.msg.id) # 0
     THEN saveMessages(ContactUpdate(q))
     ELSE UNCHANGED <<store, file>>
  /\ req' = [req EXCEPT ![r] = Responded(q, RespondStored(q.result), store', r)]

\* a handler without the spam check
Verdict_NoSpamCheck(error, spam) ==
  IF error # "" THEN "invalid" ELSE "store"

\* which return the handler takes, server.js:247-285: the validation errors, then
\* the spam check, then the store
Verdict(error, spam) ==
  IF error # "" THEN "invalid" ELSE IF spam THEN "spam" ELSE "store"

\* server.js:241-244
SanitizedFields(body) ==
  [name |-> sanitizeInput(body.name), email |-> sanitizeInput(body.email),
   subject |-> sanitizeInput(body.subject),
   message |-> sanitizeInput(body.message)]

\* the handler's pure part, server.js:241-285, worked out once for each body
Screened ==
  [body \in AllBodies |->
     LET f == SanitizedFields(body)
     IN [fields |-> f,
         spam |-> isSpam([name |-> f.name, subject |-> f.subject,
                          message |-> f.message]),
         verdict |-> Verdict(ValidationError(f.name, f.email, f.message),
                             isSpam([name |-> f.name, subject |-> f.subject,
                                     message |-> f.message])),
         error |-> ValidationError(f.name, f.email, f.message)]]

\* the handler up to its first await (or to its response), server.js:240-313
ContactSubmit(r, body) ==
  LET name == Screened[body].fields.name
      email == Screened[body].fields.email
      subject == Screened[body].fields.subject
      message == Screened[body].fields.message
      error == Screened[body].error
      verdict == Screened[body].verdict
      newMessage == NewMessage(r, name, email, subject, message)
      q == [Arrived(r, "contact") EXCEPT !.body = body]
  IN /\ NextSlot(r)
     /\ IF verdict = "invalid"
        THEN /\ req' = [req EXCEPT ![r] =
                  Responded(q, Respond(400, FALSE, error), store, r)]
             /\ UNCHANGED <<store, file>>
        ELSE IF verdict = "spam"
        THEN /\ req' = [req EXCEPT ![r] =
                  Responded(q, Respond(201, TRUE, Thanks), store, r)]
             /\ UNCHANGED <<store, file>>
        ELSE /\ saveMessages(AppendMessage(newMessage))
             /\ IF Configured
                THEN req' = [req EXCEPT ![r] =
                       [sendToTelegram(q, newMessage) EXCEPT
                          !.storedAtFetch = Holds(store', r)]]
                ELSE req' = [req EXCEPT ![r] =
                       Responded([q EXCEPT !.msg = newMessage,
                                           !.result = NotConfigured],
                                 RespondStored(NotConfigured), store', r)]
     /\ UNCHANGED <<now, ticks, botToken, chatId, reply, deleted, resendWrote>>

(***************************************************************************)
(* POST /api/messages/:id/resend-telegram, server.js:351-388               *)
(***************************************************************************)
\* the handler up to its await (or to its response), server.js:352-374
ResendStart(r, id) ==
  LET messages == readMessages
      msgIndex == findIndex(messages, id)
      q == Arrived(r, "resend")
  IN /\ NextSlot(r)
     /\ IF msgIndex = 0
        THEN req' = [req EXCEPT ![r] =
               Responded(q, Respond(404, FALSE, "Message not found"), store, r)]
        ELSE IF botToken = TokenSentinel \/ chatId = ChatSentinel
        THEN req' = [req EXCEPT ![r] =
               Responded(q, Respond(400, FALSE, "Telegram bot not configured"),
                         store, r)]
        ELSE req' = [req EXCEPT ![r] =
               sendToTelegram([q EXCEPT !.messages = messages,
                                        !.msgIndex = msgIndex],
                              messages[msgIndex])]
     /\ UNCHANGED <<store, file, now, ticks, botToken, chatId, reply, deleted, resendWrote>>

\* server.js:377-379, on the array read before the await
ResendUpdate(q) ==
  [q.messages EXCEPT ![q.msgIndex] =
     [@ EXCEPT !.telegramSent = q.result.success,
               !.telegramError = ErrorOrNull(q.result),
               !.telegramRetryAt = now]]

\* server.js:382-387
RespondResent(result) ==
  Respond(200, result.success,
          IF result.success THEN "Message sent to Telegram successfully"
          ELSE "Failed to send")

\* the handler from the return of sendToTelegram to its response, server.js:374-387
ResendFinish(r, q) ==
  /\ saveMessages(ResendUpdate(q))
  /\ req' = [req EXCEPT ![r] = Responded(q, RespondResent(q.result), store', r)]

(***************************************************************************)
(* The awaits: a handler resumes                                           *)
(***************************************************************************)
\* sendToTelegram went on to q: it waits again, or it returned and the handler
\* that awaited it runs to its response in the same turn of the event loop
Resume(r, q) ==
  IF q.pc = "returned"
  THEN IF q.kind = "contact"
       THEN ContactFinish(r, q) /\ UNCHANGED resendWrote
       ELSE ResendFinish(r, q) /\ resendWrote' = TRUE
  ELSE /\ req' = [req EXCEPT ![r] = q]
       /\ UNCHANGED <<store, file, resendWrote>>

\* an attempt of request r ends with outcome o (await fetch, await response.json())
AttemptEnds(r, o) ==
  /\ req[r].pc = "fetch"
  /\ Resume(r, AfterAttempt(req[r], o))
  /\ UNCHANGED <<now, ticks, botToken, chatId, reply, deleted>>

\* the timer of the backoff fires and the loop goes to its next round, server.js:165
BackoffEnds(r) ==
  /\ req[r].pc = "backoff"
  /\ Resume(r, StartAttempt(req[r], req[r].attempt + 1))
  /\ UNCHANGED <<now, ticks, botToken, chatId, reply, deleted>>

(***************************************************************************)
(* GET /api/messages, GET and DELETE /api/messages/:id, server.js:341-421   *)
(***************************************************************************)
ListMessages ==
  LET messages == readMessages
  IN /\ reply' = [route |-> "list", status |-> 200, success |-> TRUE,
                  count |-> Len(messages), messages |-> reverse(messages)]
     /\ UNCHANGED <<store, file, now, ticks, botToken, chatId, req, deleted, resendWrote>>

\* the response of GET /api/messages/:id on the array read, server.js:392-402
GetReply(messages, id) ==
  LET index == findIndex(messages, id)
  IN IF index = 0
     THEN [route |-> "get", status |-> 404, success |-> FALSE,
           count |-> 0, messages |-> << >>]
     ELSE [route |-> "get", status |-> 200, success |-> TRUE,
           count |-> 1, messages |-> <<messages[index]>>]

GetMessage(id) ==
  LET messages == readMessages
  IN /\ reply' = GetReply(messages, id)
     /\ UNCHANGED <<store, file, now, ticks, botToken, chatId, req, deleted, resendWrote>>

DeleteMessage(id) ==
  LET messages == readMessages
      index == findIndex(messages, id)
  IN IF index = 0
     THEN /\ reply' = [route |-> "delete", status |-> 404, success |-> FALSE,
                       count |-> 0, messages |-> << >>]
          /\ UNCHANGED <<store, file, now, ticks, botToken, chatId, req, deleted,
                         resendWrote>>
     ELSE /\ saveMessages(splice(messages, index))
          /\ reply' = [route |-> "delete", status |-> 200, success |-> TRUE,
                       count |-> 0, messages |-> << >>]
          /\ deleted' = deleted \cup {id}
          /\ UNCHANGED <<now, ticks, botToken, chatId, req, resendWrote>>

\* the file gets a content that JSON.parse rejects, or is removed
FileBreaks(k) ==
  /\ file' = k
  /\ UNCHANGED <<store, now, ticks, botToken, chatId, req, reply, deleted,
                 resendWrote>>

(***************************************************************************)
(* Rate limiters, server.js:43-66 and 238                                  *)
(***************************************************************************)
Clients == {"a", "b"}

\* max of generalLimiter
GeneralMax == 100

\* max of contactLimiter
ContactMax == 5

NoneReached == [any |-> 0, contact |-> 0]

TooManyRequests ==
  [route |-> "limited", status |-> 429, success |-> FALSE, count |-> 0,
   messages |-> << >>]

\* the handlers run with the limiters left aside: the traffic stays under the
\* limits and is not counted
Uncounted == UNCHANGED limits

\* app.use(generalLimiter): the request of client c is counted; it goes on when
\* the count is not over max
GeneralHit(c) == generalLimiter' = [generalLimiter EXCEPT ![c] = @ + 1]

GeneralPasses(c) == generalLimiter[c] + 1 <= GeneralMax

\* contactLimiter on the route of POST /api/contact
ContactHit(c) == contactLimiter' = [contactLimiter EXCEPT ![c] = @ + 1]

\* a limiter that lets the request after the last allowed one through
ContactPasses_OneMore(c) == contactLimiter[c] <= ContactMax

ContactPasses(c) == contactLimiter[c] + 1 <= ContactMax

Refused ==
  /\ reply' = TooManyRequests
  /\ UNCHANGED <<store, file, now, ticks, botToken, chatId, req, deleted, resendWrote,
                 reached>>

\* a request does not move the windows
Counted == UNCHANGED hourTurned

\* the handler of POST /api/contact on a server without credentials: there is
\* no await, so it runs to its response in one step, server.js:238-330
ContactNow(body) ==
  LET s == Screened[body]
      newMessage == NewMessage(0, s.fields.name, s.fields.email, s.fields.subject,
                               s.fields.message)
      resp == IF s.verdict = "invalid" THEN Respond(400, FALSE, s.error)
              ELSE IF s.verdict = "spam" THEN Respond(201, TRUE, Thanks)
              ELSE RespondStored(NotConfigured)
  IN /\ ~Configured
     /\ IF s.verdict = "store"
        THEN saveMessages(AppendMessage(newMessage))
        ELSE UNCHANGED <<store, file>>
     /\ reply' = [route |-> "contact", status |-> resp.status,
                  success |-> resp.success, count |-> 0, messages |-> << >>]
     /\ UNCHANGED <<now, ticks, botToken, chatId, req, deleted, resendWrote>>

\* a request of client c to POST /api/contact through both limiters
LimitedContact(c, body) ==
  /\ Counted
  /\ GeneralHit(c)
  /\ IF ~GeneralPasses(c)
     THEN Refused /\ UNCHANGED contactLimiter
     ELSE /\ ContactHit(c)
          /\ IF ~ContactPasses(c)
             THEN Refused
             ELSE /\ ContactNow(body)
                  /\ reached' = [reached EXCEPT ![c].any = @ + 1,
                                                ![c].contact = @ + 1]

\* a request of client c to GET /api/messages through the general limiter
LimitedList(c) ==
  /\ Counted
  /\ GeneralHit(c)
  /\ UNCHANGED contactLimiter
  /\ IF ~GeneralPasses(c)
     THEN Refused
     ELSE ListMessages /\ reached' = [reached EXCEPT ![c].any = @ + 1]

\* windowMs of generalLimiter has passed for client c
GeneralWindowEnds(c) ==
  /\ generalLimiter[c] > 0
  /\ generalLimiter' = [generalLimiter EXCEPT ![c] = 0]
  /\ reached' = [reached EXCEPT ![c].any = 0]
  /\ hourTurned' = [hourTurned EXCEPT ![c] = FALSE]
  /\ UNCHANGED <<store, file, now, ticks, botToken, chatId, req, reply, deleted,
                 resendWrote, contactLimiter>>

\* windowMs of contactLimiter has passed for client c; the hour of
\* contactLimiter is longer than the 15 minutes of generalLimiter, so it ends
\* at most once in a general window
ContactWindowEnds(c) ==
  /\ contactLimiter[c] > 0
  /\ ~hourTurned[c]
  /\ hourTurned' = [hourTurned EXCEPT ![c] = generalLimiter[c] > 0]
  /\ contactLimiter' = [contactLimiter EXCEPT ![c] = 0]
  /\ reached' = [reached EXCEPT ![c].contact = 0]
  /\ UNCHANGED <<store, file, now, ticks, botToken, chatId, req, reply, deleted,
                 resendWrote, generalLimiter>>

(***************************************************************************)
(* Environment                                                             *)
(***************************************************************************)
\* a millisecond passes
Tick ==
  /\ ticks < MaxTicks
  /\ now' = now + 1
  /\ ticks' = ticks + 1
  /\ UNCHANGED <<store, file, botToken, chatId, req, reply, deleted, resendWrote>>

\* a record an earlier run of the server left in data/messages.json
OldMessage ==
  [id |-> 1, name |-> <<"E","d">>, email |-> <<"e","@","d",".","e","u">>,
   subject |-> NoSubject, message |-> <<"g","o","o","d"," ","n","i","g","h","t">>,
   timestamp |-> 1, ip |-> "ip", read |-> FALSE, telegramSent |-> FALSE,
   telegramError |-> Undefined, telegramRetryAt |-> 0, origin |-> 0]

\* parseInt(req.params.id): the ids of the stored records, and with 0, which no
\* record has
StoredIds == {store[i].id : i \in DOMAIN store}

Ids == StoredIds \cup {0}

\* server.js:209-216: the file is created empty unless an earlier run left it
Init ==
  /\ store \in {<< >>, <<OldMessage>>}
  /\ file = Json
  /\ now = 2
  /\ ticks = 0
  /\ botToken \in {TokenSentinel, "token"}
  /\ chatId \in {ChatSentinel, "chat"}
  /\ req = [q \in Slots |-> FreeSlot]
  /\ reply = NoReply
  /\ deleted = {}
  /\ resendWrote = FALSE
  /\ generalLimiter = [c \in Clients |-> 0]
  /\ contactLimiter = [c \in Clients |-> 0]
  /\ hourTurned = [c \in Clients |-> FALSE]
  /\ reached = [c \in Clients |-> NoneReached]

Next ==
  \/ Uncounted /\ (\E r \in Slots : \E body \in Bodies : ContactSubmit(r, body))
  \/ Uncounted /\ (\E r \in Slots : \E id \in Ids : ResendStart(r, id))
  \/ Uncounted /\ (\E r \in Slots : \E o \in Outcomes : AttemptEnds(r, o))
  \/ Uncounted /\ (\E r \in Slots : BackoffEnds(r))
  \/ Uncounted /\ (\E id \in StoredIds : DeleteMessage(id))
  \/ Uncounted /\ Tick

Spec == Init /\ [][Next]_vars

\* submissions only, one body for each validation rule
NextValidate ==
  \/ Uncounted /\ (\E r \in Slots : \E body \in ValidationBodies : ContactSubmit(r, body))
  \/ Uncounted /\ (\E r \in Slots : \E o \in Outcomes : AttemptEnds(r, o))
  \/ Uncounted /\ (\E r \in Slots : BackoffEnds(r))
  \/ Uncounted /\ Tick

SpecValidate == Init /\ [][NextValidate]_vars

\* submissions of one valid body, with every outcome of the delivery
NextSubmit ==
  \/ Uncounted /\ (\E r \in Slots : ContactSubmit(r, ValidBodyA))
  \/ Uncounted /\ (\E r \in Slots : \E o \in Outcomes : AttemptEnds(r, o))
  \/ Uncounted /\ (\E r \in Slots : BackoffEnds(r))
  \/ Uncounted /\ Tick

SpecSubmit == Init /\ [][NextSubmit]_vars

\* the ids a client asks for: those stored, those deleted before, and one that
\* no record ever had
RequestIds == StoredIds \cup deleted \cup {0}

StoreBodies == {ValidBodyA, ValidBodyB}

\* submissions with the list, get and delete routes of the store
NextStore ==
  \/ Uncounted /\ (\E r \in Slots : \E body \in StoreBodies : ContactSubmit(r, body))
  \/ Uncounted /\ (\E r \in Slots : \E o \in Outcomes : AttemptEnds(r, o))
  \/ Uncounted /\ (\E r \in Slots : BackoffEnds(r))
  \/ Uncounted /\ ListMessages
  \/ Uncounted /\ (\E id \in RequestIds : GetMessage(id))
  \/ Uncounted /\ (\E id \in RequestIds : DeleteMessage(id))
  \/ Uncounted /\ Tick

SpecStore == Init /\ [][NextStore]_vars

\* a server without Telegram credentials (the defaults of server.js:111-113):
\* every handler runs to its response without an await
InitList == Init /\ ~Configured

NextList ==
  \/ Uncounted /\ (\E r \in Slots : \E body \in StoreBodies : ContactSubmit(r, body))
  \/ Uncounted /\ ListMessages
  \/ Uncounted /\ (\E id \in RequestIds : GetMessage(id))
  \/ Uncounted /\ (\E id \in RequestIds : DeleteMessage(id))
  \/ Uncounted /\ Tick

SpecList == InitList /\ [][NextList]_vars

\* submissions with messages at the limits of the length rule
NextLength ==
  \/ Uncounted /\ (\E r \in Slots : \E body \in LengthBodies : ContactSubmit(r, body))
  \/ Uncounted /\ (\E r \in Slots : \E o \in Outcomes : AttemptEnds(r, o))
  \/ Uncounted /\ (\E r \in Slots : BackoffEnds(r))
  \/ Uncounted /\ Tick

SpecLength == Init /\ [][NextLength]_vars

\* submissions that break several rules, on a server without credentials
NextOrder ==
  \/ Uncounted /\ (\E r \in Slots : \E body \in OrderBodies : ContactSubmit(r, body))
  \/ Uncounted /\ Tick

SpecOrder == InitList /\ [][NextOrder]_vars

\* submissions with text to strip, on a server without credentials
NextSanitize ==
  Uncounted /\ (\E r \in Slots : \E body \in SanitizeBodies : ContactSubmit(r, body))

SpecSanitize == InitList /\ [][NextSanitize]_vars

\* submissions with links, with and without credentials
NextUrl ==
  \/ Uncounted /\ (\E r \in Slots : \E body \in UrlBodies : ContactSubmit(r, body))
  \/ Uncounted /\ (\E r \in Slots : \E o \in Outcomes : AttemptEnds(r, o))
  \/ Uncounted /\ (\E r \in Slots : BackoffEnds(r))
  \/ Uncounted /\ Tick

SpecUrl == Init /\ [][NextUrl]_vars

\* every route that reads the store, on a server without credentials whose
\* store file can become unparsable or go missing
NextBroken ==
  \/ Uncounted /\ (\E k \in BrokenFiles : FileBreaks(k))
  \/ Uncounted /\ (\E r \in Slots : ContactSubmit(r, ValidBodyA))
  \/ Uncounted /\ (\E r \in Slots : \E id \in RequestIds : ResendStart(r, id))
  \/ Uncounted /\ ListMessages
  \/ Uncounted /\ (\E id \in RequestIds : GetMessage(id))
  \/ Uncounted /\ (\E id \in RequestIds : DeleteMessage(id))
  \/ Uncounted /\ Tick

SpecBroken == InitList /\ [][NextBroken]_vars

\* the most records the store holds when a client submits
MaxStored == 1

\* the most requests client b sends in a window
MaxOther == 1

\* a client sends as long as one refusal of each limiter has not been seen
Sends(c) ==
  /\ generalLimiter[c] <= GeneralMax
  /\ c = "a" \/ generalLimiter[c] < MaxOther

LimitBodies == {ValidBodyA, ShortNameBody}

\* a server with the default credentials and an empty store
InitLimit == Init /\ botToken = TokenSentinel /\ chatId = ChatSentinel /\ store = << >>

NextLimit ==
  \/ \E c \in Clients : \E body \in LimitBodies :
        /\ Sends(c)
        /\ contactLimiter[c] <= ContactMax
        /\ Len(store) < MaxStored
        /\ LimitedContact(c, body)
  \/ \E c \in Clients : Sends(c) /\ LimitedList(c)
  \/ \E c \in Clients : GeneralWindowEnds(c)
  \/ \E c \in Clients : ContactWindowEnds(c)

SpecLimit == InitLimit /\ [][NextLimit]_vars

(***************************************************************************)
(* Properties                                                              *)
(***************************************************************************)
Waiting(q) == q.pc \in {"fetch", "backoff"}

\* request r is a submission that passed validation and the spam check
StoredBy(r) == req[r].kind = "contact" /\ req[r].msg.origin = r

Answered(r) == req[r].pc = "done"

\* C1: a valid, non-spam submission has its message in the store when the first
\* delivery attempt starts, and still when the handler responds, whatever the
\* delivery did, unless a delete request for its id ran.
C1_StoredBeforeNotifyUntilReply ==
  \A r \in Slots :
    StoredBy(r) =>
      /\ Waiting(req[r]) => req[r].storedAtFetch
      /\ (Answered(r) /\ req[r].msg.id \notin deleted) => req[r].storedAtReply

\* C2: a submission whose message was written is answered 201 with success=true
\* whatever the notifier did, and telegramNotified is the result's success.
C2_StoredIsAnswered201 ==
  \A r \in Slots :
    (StoredBy(r) /\ Answered(r)) =>
      /\ req[r].resp.status = 201
      /\ req[r].resp.success
      /\ req[r].resp.hasNotified
      /\ req[r].resp.telegramNotified = req[r].result.success

C2_FailedDeliveryAnswered201 ==
  \E r \in Slots :
    /\ StoredBy(r)
    /\ Answered(r)
    /\ req[r].result.error = "Network error after 3 attempts"
    /\ req[r].resp.status = 201
    /\ ~req[r].resp.telegramNotified

\* the body passes the four validation rules and matches a spam pattern
SpamSubmission(body) ==
  /\ Screened[body].error = ""
  /\ Screened[body].spam

\* request r arrives in this step
Arrives(r) == req[r].kind = "free" /\ req'[r].kind # "free"

\* C3: a valid submission classified as spam is answered 201 with success=true,
\* writes nothing to the store and does not call the notifier.
C3_SpamLeavesStoreAlone ==
  [][\A r \in Slots :
       (Arrives(r) /\ req'[r].kind = "contact" /\ SpamSubmission(req'[r].body)) =>
         /\ store' = store
         /\ req'[r].pc = "done"
         /\ req'[r].resp.status = 201
         /\ req'[r].resp.success
         /\ req'[r].msg = NoMessage
         /\ req'[r].result = NoResult]_vars

C3_SpamAnswered ==
  \E r \in Slots :
    /\ req[r].kind = "contact"
    /\ req[r].body = SpamBody
    /\ Answered(r)
    /\ req[r].resp.status = 201
    /\ store # << >>

\* the validation rules, on the sanitized fields
BreaksARule(body) ==
  LET f == Screened[body].fields
  IN \/ f.name = << >> \/ f.email = << >> \/ f.message = << >>
     \/ Len(f.name) < 2 \/ Len(f.name) > 100
     \/ Len(f.message) < 10 \/ Len(f.message) > 1000
     \/ ~isValidEmail(f.email)

C5_RetryOnlyAfterNetworkError ==
  \A r \in Slots :
    Waiting(req[r]) =>
      \A n \in DOMAIN req[r].outcomes : req[r].outcomes[n] = "network"

\* C6: a call of sendToTelegram makes at most 3 attempts, always returns a
\* result with a boolean success, and success is true exactly when an attempt
\* got ok=true.
C6_AtMostThreeAttempts ==
  \A r \in Slots :
    /\ Waiting(req[r]) =>
         /\ req[r].attempt \in 1..3
         /\ Len(req[r].outcomes) =
              (IF req[r].pc = "fetch" THEN req[r].attempt - 1 ELSE req[r].attempt)
         /\ "ok" \notin Range(req[r].outcomes)
         /\ "rejected" \notin Range(req[r].outcomes)
    /\ (Answered(r) /\ req[r].result # NoResult) =>
         /\ req[r].result.success \in BOOLEAN
         /\ req[r].result.success <=> req[r].sawOk

C6_ThirdAttemptRuns ==
  \E r \in Slots :
    /\ req[r].pc = "fetch"
    /\ req[r].attempt = 3
    /\ req[r].outcomes = <<"other", "network">>

\* C7: every retry comes after a backoff wait: attempt n+1 starts after a wait
\* of 2^(n-1) seconds that followed attempt n.
C7_EveryRetryAfterBackoff ==
  \A r \in Slots :
    req[r].pc = "fetch" =>
      /\ Len(req[r].delays) = req[r].attempt - 1
      /\ \A n \in DOMAIN req[r].delays : req[r].delays[n] = (2 ^ (n - 1)) * 1000

\* C8: no two records of the store have the same id.
C8_IdsAreUnique ==
  \A i \in DOMAIN store : \A j \in DOMAIN store :
    i # j => store[i].id # store[j].id

\* the record that request o created (0: the record of an earlier run) is stored
Present(o) == \E i \in DOMAIN store : store[i].origin = o

\* C9: a stored record leaves the store only in a successful DELETE request.
C9_OnlyDeleteRemoves ==
  [][\A o \in 0..MaxReq :
       (Present(o) /\ ~Present(o)') =>
         /\ req' = req
         /\ Len(store') = Len(store) - 1
         /\ \E i \in DOMAIN store : store[i].origin = o /\ store[i].id \in deleted']_vars

\* two submissions that were in flight at the same time, both answered 201
\* with their messages written, and no delete and no resend write so far
BothAnswered(r1, r2) ==
  /\ r1 # r2
  /\ StoredBy(r1) /\ StoredBy(r2)
  /\ r1 \in req[r2].overlaps
  /\ Answered(r1) /\ Answered(r2)
  /\ deleted = {}
  /\ ~resendWrote

Record(messages, o) ==
  messages[CHOOSE i \in DOMAIN messages : messages[i].origin = o]

StatusOf(m) == <<m.telegramSent, m.telegramError, m.telegramRetryAt>>

\* the delivery invocation of request r returns in this step
Completes(r) == Waiting(req[r]) /\ req'[r].pc = "done"

\* C11: the delivery-status fields of a stored message change only in the step
\* that follows the completion of a delivery invocation for that message, and an
\* invocation that returned a failure leaves telegramSent false (so telegramSent
\* is true only if the latest completed invocation for the message succeeded).
C11_StatusFollowsDelivery ==
  [][\A o \in 0..MaxReq :
       (Present(o) /\ Present(o)') =>
         /\ StatusOf(Record(store, o)) # StatusOf(Record(store', o)) =>
              \E r \in Slots : Completes(r) /\ req[r].msg.origin = o
         /\ \A r \in Slots :
              (Completes(r) /\ req[r].msg.origin = o /\ ~req'[r].result.success) =>
                ~Record(store', o).telegramSent]_vars

\* C12: with a sentinel credential a valid, non-spam submission does not call
\* the notifier, is stored and answered 201 with telegramNotified=false, and
\* its stored record has telegramError "Not configured"; a resend request does
\* not call the notifier and leaves the store unchanged.
C12_NotConfiguredIsRecorded ==
  [][~Configured =>
       \A r \in Slots :
         Arrives(r) =>
           /\ req'[r].pc = "done"
           /\ req'[r].kind = "resend" => store' = store
           /\ (req'[r].kind = "contact" /\ req'[r].msg.origin = r) =>
                /\ Present(r)'
                /\ req'[r].resp.status = 201
                /\ req'[r].resp.hasNotified
                /\ ~req'[r].resp.telegramNotified
                /\ Record(store', r).telegramError = "Not configured"]_vars

\* the fields of a record as the server keeps them
Stored(m) ==
  [id |-> m.id, name |-> m.name, email |-> m.email, subject |-> m.subject,
   message |-> m.message, timestamp |-> m.timestamp, ip |-> m.ip, read |-> m.read,
   telegramSent |-> m.telegramSent, telegramError |-> m.telegramError,
   telegramRetryAt |-> m.telegramRetryAt]

\* the array without its record of origin o
Without(messages, o) == SelectSeq(messages, LAMBDA m : m.origin # o)

\* C13: right after a submission stored its record with id i, GET i returns
\* that record; right after a successful DELETE i, GET i and DELETE i find no
\* record (404), and the other records are as they were, in their order.
C13_StoreRoundTrip ==
  [][/\ \A r \in Slots :
          (Arrives(r) /\ req'[r].kind = "contact" /\ req'[r].msg.origin = r) =>
            LET got == GetReply(store', req'[r].msg.id)
            IN /\ got.status = 200
               /\ Stored(got.messages[1]) = Stored(Record(store', r))
     /\ \A o \in 0..MaxReq :
          (Present(o) /\ ~Present(o)' /\ req' = req) =>
            /\ reply'.route = "delete" /\ reply'.status = 200
            /\ GetReply(store', Record(store, o).id).status = 404
            /\ findIndex(store', Record(store, o).id) = 0
            /\ store' = Without(store, o)]_vars

\* the stored array is in insertion order: requests arrive in the order of
\* their slots, and the record of the earlier run came first
InInsertionOrder(messages) ==
  \A i \in DOMAIN messages : \A j \in DOMAIN messages :
    i < j => messages[i].origin < messages[j].origin

\* C14: GET /api/messages answers with all stored records, the most recently
\* appended first, and count their number; the store itself is left as it
\* was, in insertion order.
C14_ListIsNewestFirst ==
  [][(reply' # reply /\ reply'.route = "list") =>
       /\ reply'.status = 200 /\ reply'.success
       /\ reply'.count = Len(store)
       /\ Len(reply'.messages) = Len(store)
       /\ Range(reply'.messages) = Range(store)
       /\ \A i \in DOMAIN reply'.messages : \A j \in DOMAIN reply'.messages :
            i < j => reply'.messages[i].origin > reply'.messages[j].origin
       /\ store' = store
       /\ InInsertionOrder(store')]_vars

C14_ListedThree ==
  /\ reply.route = "list"
  /\ reply.count = 3
  /\ reply.messages[1].origin = 2
  /\ reply.messages[3].origin = 0
  /\ Len(store) = 3 /\ store[1].origin = 0

\* a request of client c was counted in this step and reached no handler
RefusedStep(c) ==
  /\ generalLimiter'[c] = generalLimiter[c] + 1
  /\ reached'[c] = reached[c]

\* C15: in a window of contactLimiter at most 5 requests of a client reach the
\* handler of POST /api/contact, in a window of generalLimiter at most 100 of
\* its requests reach a handler; a request over a limit is answered with the
\* rejection and changes neither the store nor the handlers.
C15_LimitsHold ==
  [][\A c \in Clients :
       /\ reached'[c].contact <= 5
       /\ reached'[c].any <= 100
       /\ (generalLimiter'[c] = generalLimiter[c] + 1 /\ generalLimiter[c] >= 100) =>
            RefusedStep(c)
       /\ (contactLimiter'[c] = contactLimiter[c] + 1 /\ contactLimiter[c] >= 5) =>
            RefusedStep(c)
       /\ RefusedStep(c) =>
            /\ reply'.status = 429 /\ ~reply'.success
            /\ store' = store
            /\ req' = req]_vars

C15_BothLimitsReached ==
  /\ generalLimiter["a"] = 101
  /\ contactLimiter["a"] = 6
  /\ reached["a"].contact = 5
  /\ reached["a"].any = 99
  /\ reply.status = 429
  /\ reached["b"].contact = 1
  /\ store # << >>

\* C16: a submission with a message of 9 or of 1001 characters (other fields
\* valid, nothing to strip) is answered 400 with the message-length error, one
\* with a message of 10 or of 1000 characters is accepted and stored.
C16_MessageLengthLimits ==
  [][\A r \in Slots :
       (Arrives(r) /\ req'[r].kind = "contact" /\ req'[r].body \in LengthBodies) =>
         IF Len(req'[r].body.message) \in {9, 1001}
         THEN /\ req'[r].pc = "done"
              /\ req'[r].resp.status = 400
              /\ req'[r].resp.text = MessageError
              /\ store' = store
         ELSE /\ req'[r].msg.origin = r
              /\ Present(r)'
              /\ Len(Record(store', r).message) = Len(req'[r].body.message)]_vars

\* rule n of the validation is broken by the sanitized fields f
Broken(n, f) ==
  CASE n = 1 -> f.name = << >> \/ f.email = << >> \/ f.message = << >>
    [] n = 2 -> Len(f.name) < 2 \/ Len(f.name) > 100
    [] n = 3 -> Len(f.message) < 10 \/ Len(f.message) > 1000
    [] n = 4 -> ~EmailShape(f.email) \/ Len(f.email) > 254

ReasonOf(n) ==
  CASE n = 1 -> RequiredError [] n = 2 -> NameError
    [] n = 3 -> MessageError [] n = 4 -> EmailError

\* the rules each body breaks, worked out once
BrokenRules ==
  [body \in AllBodies |-> {n \in 1..4 : Broken(n, Screened[body].fields)}]

\* C17: the 400 reason of a submission is that of the lowest-numbered rule it
\* breaks (1 required fields, 2 name length, 3 message length, 4 email), and
\* the spam check counts only when no rule is broken.
C17_FirstBrokenRuleDecides ==
  [][\A r \in Slots :
       (Arrives(r) /\ req'[r].kind = "contact") =>
         LET broken == BrokenRules[req'[r].body]
         IN IF broken # {}
            THEN /\ req'[r].resp.status = 400
                 /\ \E n \in broken :
                      /\ \A m \in broken : n <= m
                      /\ req'[r].resp.text = ReasonOf(n)
            ELSE /\ req'[r].resp.status = 201
                 /\ Screened[req'[r].body].spam <=> req'[r].msg = NoMessage]_vars

C17_SpamWithBadEmailRefused ==
  \E r \in Slots : \E s \in Slots :
    /\ req[r].body.message = SpamBody.message
    /\ req[r].body.email = BadEmail
    /\ req[r].resp.text = EmailError
    /\ req[s].body.name = <<"A">>
    /\ req[s].body.email = LongEmail
    /\ req[s].resp.text = NameError

\* C18: sanitizeInput is idempotent: the sanitized message a submission stored
\* is left as it is when it is sanitized again.
C18_SanitizeIdempotent ==
  \A r \in Slots :
    (StoredBy(r) /\ req[r].body \in SanitizeBodies) =>
      sanitizeInput(req[r].msg.message) = req[r].msg.message

\* C19: a resend request for a stored id, when its delivery invocation returns,
\* sets telegramSent, telegramError and telegramRetryAt of that message and
\* leaves its other fields and every other stored message unchanged; for an
\* absent id it answers 404 without a delivery attempt and without a change of
\* the store.
C19_ResendChangesOneMessage ==
  [][\A r \in Slots :
       /\ (req[r].kind = "resend" /\ Completes(r)) =>
            \E i \in DOMAIN store :
              /\ store[i].id = req[r].msg.id
              /\ store' = [store EXCEPT ![i] =
                    [@ EXCEPT !.telegramSent = req'[r].result.success,
                              !.telegramError = ErrorOrNull(req'[r].result),
                              !.telegramRetryAt = now]]
       /\ (req[r].kind = "free" /\ req'[r].kind = "resend"
             /\ req'[r].resp.status = 404) =>
            /\ store' = store
            /\ req'[r].outcomes = << >>]_vars

\* the places of s where a URL scheme starts
SchemeStarts(s) ==
  {i \in DOMAIN s : MatchAt(s, HttpScheme, i) \/ MatchAt(s, HttpsScheme, i)}

\* how many URL schemes the text that the classifier reads holds, for each body
SchemeCount ==
  [body \in UrlBodies |-> Cardinality(SchemeStarts(SpamContent(Screened[body].fields)))]

\* C20: a submission whose combined text (name, subject, message) holds two or
\* more URL schemes, wherever they are, is flagged as spam and is never stored.
C20_TwoSchemesAreSpam ==
  \A r \in Slots :
    (req[r].kind = "contact" /\ req[r].body \in UrlBodies
       /\ SchemeCount[req[r].body] >= 2) =>
      /\ Screened[req[r].body].spam
      /\ ~StoredBy(r)
      /\ ~Present(r)

HasId(messages, id) == \E i \in DOMAIN messages : messages[i].id = id

\* request r is a submission that arrives in this step and stores a record
\* with this id
Creates(r, id) ==
  /\ Arrives(r)
  /\ req'[r].kind = "contact"
  /\ req'[r].msg.origin = r
  /\ req'[r].msg.id = id

\* C22: once a DELETE request has removed the record with id i, a record with
\* id i comes into the store again only when a new submission creates it:
\* neither the status update of a submission nor the status write of a resend
\* request that was in flight brings the deleted record back.
C22_DeletedStaysDeleted ==
  [][\A id \in deleted :
       (~HasId(store, id) /\ HasId(store', id)) =>
         \E r \in Slots : Creates(r, id)]_vars

====
